---- MODULE Spec2Model ----
(***************************************************************************)
(* Model of cmd/node/main.go of the ADNL tunnel node: the payment bootstrap *)
(* (preparePayments), the payment-channel selector (preparePaymentChannel)  *)
(* and the operator console loop of main with its speed sampler task.       *)
(***************************************************************************)
EXTENDS Integers, Sequences, FiniteSets, TLC

\* ---------------------------------------------------------------- bounds
MaxChannels == 3      \* longest channel list returned by the store
MaxDeposit == 1       \* largest deposited amount
NumKeys == 2          \* distinct 32-byte counterparty keys
MaxPolls == 3         \* the poll counter saturates here (the loop does not)
NumMigrations == 2    \* len(db.Migrations)
MaxSeqno == 1         \* largest persisted scan cursor
MaxCtx == 2           \* speed commands that enable the sampler
NumSections == 1      \* sections the gateway keeps statistics for
MaxLines == 2         \* the rate-line counter saturates here
MaxAmount == 2        \* largest per-channel balance or capacity
MaxLive == 1          \* channel updates the running service makes
MainChannels == 1     \* Active channels of the store in runs of the whole of main

\* crypto/ed25519.PublicKeySize, the length checked at main.go:586
PublicKeySize == 32

VARIABLES
    pc,          \* position of the main goroutine
    exited,      \* the process has ended through log.Fatal (os.Exit)
    \* ---- preparePaymentChannel
    ch,          \* the counterparty key argument (NoKey when empty)
    store,       \* what ListChannels(Active) returns: [ok, chans]
    list,        \* the local list
    idx,         \* position of the range loop over list
    best,        \* local best (NoKey models nil)
    bestAmount,  \* local bestAmount
    selIdx,      \* index of the channel the result was taken from (0: none)
    openCalls,   \* sequence of targets OpenChannelWithNode was called with
    addr,        \* address returned by OpenChannelWithNode (0: none)
    chan,        \* the deployed channel as the payment service sees it
    polls,       \* number of GetChannel polls made (saturating)
    lastPoll,    \* [addr, res] of the last GetChannel poll
    ret,         \* result of preparePaymentChannel: [key, err]
    \* ---- preparePayments
    disk,        \* the state store found at cfg.Payments.DBPath
    freshDb,     \* freshDb as returned by leveldb.NewLevelDB
    migVersion,  \* the persisted migration version
    migRan,      \* the migrations executed, in order
    seqno,       \* local seqno
    scanner,     \* the chain scanner: [started, from]
    observer,    \* fdb's channel-update callback is sc.OnChannelUpdate
    chList,      \* local chList
    chLoaded,    \* GetChannels has returned chList
    rIdx,        \* position of the replay loop over chList
    notifs,      \* calls of sc.OnChannelUpdate, in order: [chan, flag, src]
    missed,      \* channel updates made while no observer was registered
    walletInit,  \* pWallet.InitWallet has succeeded
    svc,         \* the payment service: "none", "created", "running"
    fatalAt,     \* the step whose failure ended the process
    \* ---- main and its console loop
    cfgPayments, \* cfg.PaymentsEnabled
    gateStarted, \* the goroutine running tGate.Start() has been launched
    pmtService,  \* pmt.Service is set
    wlt,         \* wlt is set
    apiClient,   \* apiClient is set
    speedPrinterCtx, \* the context held by speedPrinterCtx / cancelSp
    cancelled,   \* the contexts that have been cancelled
    tasks,       \* the sampler goroutines, by the context created for them
    gwSections,  \* the sections tGate.GetPacketsStats() reports now
    active,      \* the Active channels of the store, with what CalcBalance gives
    out,         \* what the last balance or capacity command logged:
                 \* [kind, total, errs]
    episode,     \* "one": last command was a speed that enabled; "two": and
                 \* the one after it was a speed too; "none" otherwise
    epLines,     \* rate lines logged since the enabling speed of the episode
                 \* (saturating; 0 when episode is "none")
    speeds,      \* number of speed commands processed
    cmdLog       \* what the command being processed (or the last one) did:
                 \* [cmd, reads, parsed, calls] (cmd names the payment and
                 \* wallet commands only)

selVars == <<ch, store, list, idx, best, bestAmount, selIdx, openCalls, addr,
             chan, polls, lastPoll, ret>>

bootVars == <<disk, freshDb, migVersion, migRan, seqno, scanner, observer,
              chList, chLoaded, rIdx, notifs, missed, walletInit, svc, fatalAt>>

conVars == <<cfgPayments, gateStarted, speeds, pmtService, wlt, apiClient, speedPrinterCtx, cancelled, tasks,
             gwSections, active, out, cmdLog, episode, epLines, speeds, cmdLog>>

nonSelVars == <<bootVars, conVars>>
nonBootVars == <<selVars, conVars>>
nonConVars == <<selVars, bootVars>>

vars == <<pc, exited, selVars, bootVars, conVars>>

\* ------------------------------------------------------------ data model
NoKey == [id |-> 0, len |-> 0]
Key(n) == [id |-> n, len |-> PublicKeySize]
ShortKey == [id |-> 1, len |-> 16]
ValidKeys == {Key(n) : n \in 1..NumKeys}

\* a channel of the active list: TheirOnchain.Key and TheirOnchain.Deposited
ActiveChannel == [key : ValidKeys, deposited : 0..MaxDeposit]

SeqsUpTo(S, n) == UNION {[1..k -> S] : k \in 0..n}

Addrs == {1, 2}
NoPoll == [addr |-> 0, res |-> [err |-> "nopoll", our |-> FALSE, their |-> FALSE]]
NoRet == [key |-> NoKey, err |-> "none"]
NoChan == [visible |-> FALSE, our |-> FALSE, their |-> FALSE]
ChanStates == [visible : BOOLEAN, our : BOOLEAN, their : BOOLEAN]

\* what the operator can type at the prompt of main.go:575: a line Scanln
\* cannot read, a line that is no base64, or the base64 of some bytes
PromptInputs ==
    {[kind |-> "readfail", key |-> NoKey], [kind |-> "badbase64", key |-> NoKey]}
    \cup [kind : {"bytes"}, key : ValidKeys \cup {ShortKey, NoKey}]

Min(a, b) == IF a < b THEN a ELSE b

\* ------------------------------------------------- preparePaymentChannel
\* main.go:544-547
Sel_List ==
    /\ pc = "sel_list"
    /\ IF ~store.ok
         THEN /\ ret' = [key |-> NoKey, err |-> "list"]
              /\ pc' = "sel_err"
              /\ UNCHANGED list
         ELSE /\ list' = store.chans
              /\ pc' = "sel_loop"
              /\ UNCHANGED ret
    /\ idx' = 1
    /\ best' = NoKey
    /\ bestAmount' = 0
    /\ UNCHANGED <<nonSelVars, exited, ch, store, selIdx, openCalls, addr, chan, polls, lastPoll>>

\* faulty variant: a strict comparison, so the first of the tied channels wins
DepositWins_Strict(deposited, amount) == deposited > amount

\* main.go:561: channel.TheirOnchain.Deposited.Cmp(bestAmount) >= 0
DepositWins(deposited, amount) == deposited >= amount

\* faulty variant: the loop never looks at the requested key and always selects by
\* deposit
Sel_LoopStep_IgnoresKey ==
    /\ pc = "sel_loop"
    /\ idx <= Len(list)
    /\ LET channel == list[idx] IN
         /\ IF DepositWins(channel.deposited, bestAmount)
              THEN /\ bestAmount' = channel.deposited
                   /\ best' = channel.key
                   /\ selIdx' = idx
              ELSE UNCHANGED <<bestAmount, best, selIdx>>
         /\ idx' = idx + 1
         /\ UNCHANGED <<ret, pc>>
    /\ UNCHANGED <<nonSelVars, exited, ch, store, list, openCalls, addr, chan, polls, lastPoll>>

\* main.go:551-565, one iteration of the range loop
Sel_LoopStep ==
    /\ pc = "sel_loop"
    /\ idx <= Len(list)
    /\ LET channel == list[idx] IN
       IF ch.len > 0
         THEN IF channel.key = ch
                THEN /\ ret' = [key |-> channel.key, err |-> "none"]
                     /\ selIdx' = idx
                     /\ pc' = "sel_ok"
                     /\ UNCHANGED <<idx, best, bestAmount>>
                ELSE /\ idx' = idx + 1
                     /\ UNCHANGED <<ret, selIdx, pc, best, bestAmount>>
         ELSE /\ IF DepositWins(channel.deposited, bestAmount)
                   THEN /\ bestAmount' = channel.deposited
                        /\ best' = channel.key
                        /\ selIdx' = idx
                   ELSE UNCHANGED <<bestAmount, best, selIdx>>
              /\ idx' = idx + 1
              /\ UNCHANGED <<ret, pc>>
    /\ UNCHANGED <<nonSelVars, exited, ch, store, list, openCalls, addr, chan, polls, lastPoll>>

\* main.go:567-574, after the loop: return best, or go on to deployment
Sel_AfterLoop ==
    /\ pc = "sel_loop"
    /\ idx > Len(list)
    /\ IF best # NoKey
         THEN /\ ret' = [key |-> best, err |-> "none"]
              /\ pc' = "sel_ok"
         ELSE /\ pc' = IF ch.len = 0 THEN "sel_prompt" ELSE "sel_len"
              /\ UNCHANGED ret
    /\ UNCHANGED <<nonSelVars, exited, ch, store, list, idx, best, bestAmount, selIdx,
                   openCalls, addr, chan, polls, lastPoll>>

\* main.go:574-584, the prompt for a counterparty key
Sel_Prompt ==
    /\ pc = "sel_prompt"
    /\ \E inp \in PromptInputs :
         IF inp.kind = "readfail"
           THEN /\ ret' = [key |-> NoKey, err |-> "read"]
                /\ pc' = "sel_err"
                /\ UNCHANGED ch
           ELSE IF inp.kind = "badbase64"
                  THEN /\ ret' = [key |-> NoKey, err |-> "format"]
                       /\ pc' = "sel_err"
                       /\ UNCHANGED ch
                  ELSE /\ ch' = inp.key
                       /\ pc' = "sel_len"
                       /\ UNCHANGED ret
    /\ UNCHANGED <<nonSelVars, exited, store, list, idx, best, bestAmount, selIdx,
                   openCalls, addr, chan, polls, lastPoll>>

\* main.go:586-588
Sel_CheckLen ==
    /\ pc = "sel_len"
    /\ IF ch.len # PublicKeySize
         THEN /\ ret' = [key |-> NoKey, err |-> "length"]
              /\ pc' = "sel_err"
         ELSE /\ pc' = "sel_open"
              /\ UNCHANGED ret
    /\ UNCHANGED <<nonSelVars, exited, ch, store, list, idx, best, bestAmount, selIdx,
                   openCalls, addr, chan, polls, lastPoll>>

\* faulty variant: a failed deployment is attempted a second time
Sel_Open_Retries ==
    /\ pc = "sel_open"
    /\ openCalls' = Append(openCalls, ch)
    /\ \/ /\ IF Len(openCalls) = 0
               THEN pc' = "sel_open" /\ UNCHANGED ret
               ELSE ret' = [key |-> NoKey, err |-> "deploy"] /\ pc' = "sel_err"
          /\ UNCHANGED <<addr, chan>>
       \/ /\ \E a \in Addrs : addr' = a
          /\ \E c \in ChanStates : chan' = c
          /\ pc' = "sel_poll"
          /\ UNCHANGED ret
    /\ UNCHANGED <<nonSelVars, exited, ch, store, list, idx, best, bestAmount, selIdx,
                   polls, lastPoll>>

\* main.go:590-596, OpenChannelWithNode under its 150 s timeout
Sel_Open ==
    /\ pc = "sel_open"
    /\ openCalls' = Append(openCalls, ch)
    /\ \/ /\ ret' = [key |-> NoKey, err |-> "deploy"]
          /\ pc' = "sel_err"
          /\ UNCHANGED <<addr, chan>>
       \/ /\ \E a \in Addrs : addr' = a
          /\ \E c \in ChanStates : chan' = c
          /\ pc' = "sel_poll"
          /\ UNCHANGED ret
    /\ UNCHANGED <<nonSelVars, exited, ch, store, list, idx, best, bestAmount, selIdx,
                   polls, lastPoll>>

\* what GetChannel can answer for the deployed address: db.ErrNotFound while
\* the service does not hold the channel, the channel with its two readiness
\* flags once it does, or at any time some other failure
GetChannelResults ==
    {[err |-> "other", our |-> FALSE, their |-> FALSE]} \cup
    (IF ~chan.visible
       THEN {[err |-> "notfound", our |-> FALSE, their |-> FALSE]}
       ELSE {[err |-> "none", our |-> chan.our, their |-> chan.their]})

\* faulty variant: the wait ends as soon as one of the two sides is ready
AfterPoll_EitherReady(res) ==
    IF res.err # "none"
      THEN IF res.err = "notfound" THEN "sel_poll" ELSE "sel_err"
      ELSE IF ~res.our /\ ~res.their THEN "sel_poll" ELSE "sel_ok"

\* faulty variant: every GetChannel failure, ErrNotFound included, ends the wait
AfterPoll_NotFoundFatal(res) ==
    IF res.err # "none"
      THEN "sel_err"
      ELSE IF ~res.our \/ ~res.their THEN "sel_poll" ELSE "sel_ok"

\* main.go:600-612: what the loop does with a poll result
AfterPoll(res) ==
    IF res.err # "none"
      THEN IF res.err = "notfound" THEN "sel_poll" ELSE "sel_err"
      ELSE IF ~res.our \/ ~res.their THEN "sel_poll" ELSE "sel_ok"

\* faulty variant: the wait gives up after a fixed number of polls
Sel_Poll_Deadline ==
    /\ pc = "sel_poll"
    /\ \E res \in GetChannelResults :
         LET next == IF AfterPoll(res) = "sel_poll" /\ polls >= 1
                       THEN "sel_err" ELSE AfterPoll(res) IN
         /\ lastPoll' = [addr |-> addr, res |-> res]
         /\ pc' = next
         /\ ret' = CASE next = "sel_err" -> [key |-> NoKey, err |-> "getchannel"]
                     [] next = "sel_ok"  -> [key |-> ch, err |-> "none"]
                     [] OTHER            -> ret
    /\ polls' = Min(polls + 1, MaxPolls)
    /\ UNCHANGED <<nonSelVars, exited, ch, store, list, idx, best, bestAmount, selIdx,
                   openCalls, addr, chan>>

\* main.go:598-616, one iteration of the readiness loop (poll, then the
\* 500 ms sleep or the return)
Sel_Poll ==
    /\ pc = "sel_poll"
    /\ \E res \in GetChannelResults :
         /\ lastPoll' = [addr |-> addr, res |-> res]
         /\ pc' = AfterPoll(res)
         /\ ret' = CASE AfterPoll(res) = "sel_err" -> [key |-> NoKey, err |-> "getchannel"]
                     [] AfterPoll(res) = "sel_ok"  -> [key |-> ch, err |-> "none"]
                     [] OTHER                      -> ret
    /\ polls' = Min(polls + 1, MaxPolls)
    /\ UNCHANGED <<nonSelVars, exited, ch, store, list, idx, best, bestAmount, selIdx,
                   openCalls, addr, chan>>

\* the payment service and the counterparty advance the deployed channel
\* while the selector sleeps between polls
Env_Channel ==
    /\ pc = "sel_poll"
    /\ \E c \in ChanStates : chan' = c /\ c # chan
    /\ UNCHANGED <<nonSelVars, pc, exited, ch, store, list, idx, best, bestAmount, selIdx,
                   openCalls, addr, polls, lastPoll, ret>>

\* ------------------------------------------------------- preparePayments
Statuses == {"Inactive", "Active", "Closing"}
NoCursor == [present |-> FALSE, seqno |-> 0]
Cursors == {NoCursor} \cup [present : {TRUE}, seqno : 0..MaxSeqno]

\* a store that does not exist yet, or one left by an earlier run
FreshDisk == [exists |-> FALSE, version |-> 0, cursor |-> NoCursor, channels |-> <<>>]
DiskStates ==
    {FreshDisk} \cup
    [exists : {TRUE}, version : 0..NumMigrations, cursor : Cursors,
     channels : SeqsUpTo(Statuses, MaxChannels)]

\* faulty variant: the failure is logged and preparePayments returns to main
Fatal_LogsOnly(where) ==
    /\ pc' = "main_go_pm"
    /\ exited' = exited
    /\ fatalAt' = where

\* log.Fatal().Msg: zerolog logs and calls os.Exit(1)
Fatal(where) ==
    /\ pc' = "exit"
    /\ exited' = TRUE
    /\ fatalAt' = where

\* main.go:436-444
PP_Connect ==
    /\ pc = "pp_connect"
    /\ \/ /\ pc' = "pp_gate"
          /\ UNCHANGED <<exited, fatalAt>>
       \/ Fatal("connect")
    /\ UNCHANGED <<nonBootVars, disk, freshDb, migVersion, migRan, seqno, scanner,
                   observer, chList, chLoaded, rIdx, notifs, missed, walletInit, svc>>

\* main.go:446-464
PP_GateStart ==
    /\ pc = "pp_gate"
    /\ \/ /\ pc' = "pp_opendb"
          /\ UNCHANGED <<exited, fatalAt>>
       \/ Fatal("gate")
    /\ UNCHANGED <<nonBootVars, disk, freshDb, migVersion, migRan, seqno, scanner,
                   observer, chList, chLoaded, rIdx, notifs, missed, walletInit, svc>>

\* main.go:466-473
PP_OpenDB ==
    /\ pc = "pp_opendb"
    /\ \/ /\ freshDb' = ~disk.exists
          /\ migVersion' = disk.version
          /\ pc' = "pp_migrate"
          /\ UNCHANGED <<exited, fatalAt>>
       \/ /\ Fatal("leveldb")
          /\ UNCHANGED <<freshDb, migVersion>>
    /\ UNCHANGED <<nonBootVars, disk, migRan, seqno, scanner,
                   observer, chList, chLoaded, rIdx, notifs, missed, walletInit, svc>>

\* db.RunMigrations from stored version v: the pending migrations v+1..total
\* run in ascending order, each raising the version; a failing migration
\* stops the run
RunMigrationsOutcomes(v) ==
    {[ok |-> TRUE, ran |-> [i \in 1..(NumMigrations - v) |-> v + i],
      version |-> NumMigrations]}
    \cup {[ok |-> FALSE, ran |-> [i \in 1..(k - v) |-> v + i], version |-> k - 1]
            : k \in (v + 1)..NumMigrations}
    \cup {[ok |-> FALSE, ran |-> <<>>, version |-> v]}

\* faulty variant: the freshDb flag is not looked at, the migrations always run
PP_Migrate_AlwaysRuns ==
    /\ pc = "pp_migrate"
    /\ \E o \in RunMigrationsOutcomes(migVersion) :
         /\ migRan' = o.ran
         /\ migVersion' = o.version
         /\ IF o.ok
              THEN pc' = "pp_offset" /\ UNCHANGED <<exited, fatalAt>>
              ELSE Fatal("migrate")
    /\ UNCHANGED <<nonBootVars, disk, freshDb, seqno, scanner,
                   observer, chList, chLoaded, rIdx, notifs, missed, walletInit, svc>>

\* main.go:475-485
PP_Migrate ==
    /\ pc = "pp_migrate"
    /\ IF freshDb
         THEN \/ /\ migVersion' = NumMigrations
                 /\ pc' = "pp_offset"
                 /\ UNCHANGED <<migRan, exited, fatalAt>>
              \/ /\ Fatal("setversion")
                 /\ UNCHANGED <<migVersion, migRan>>
         ELSE \E o \in RunMigrationsOutcomes(migVersion) :
                /\ migRan' = o.ran
                /\ migVersion' = o.version
                /\ IF o.ok
                     THEN pc' = "pp_offset" /\ UNCHANGED <<exited, fatalAt>>
                     ELSE Fatal("migrate")
    /\ UNCHANGED <<nonBootVars, disk, freshDb, seqno, scanner,
                   observer, chList, chLoaded, rIdx, notifs, missed, walletInit, svc>>

\* what fdb.GetBlockOffset can answer: the persisted cursor, db.ErrNotFound
\* when there is none, or at any time some other failure
GetBlockOffsetResults ==
    {[err |-> "other", seqno |-> 0]} \cup
    (IF disk.cursor.present
       THEN {[err |-> "none", seqno |-> disk.cursor.seqno]}
       ELSE {[err |-> "notfound", seqno |-> 0]})

\* faulty variant: any failure of the cursor read is taken for "no cursor"
PP_GetBlockOffset_IgnoresError ==
    /\ pc = "pp_offset"
    /\ \E bo \in GetBlockOffsetResults :
         /\ seqno' = IF bo.err = "none" THEN bo.seqno ELSE 0
         /\ pc' = "pp_scanner"
         /\ UNCHANGED <<exited, fatalAt>>
    /\ UNCHANGED <<nonBootVars, disk, freshDb, migVersion, migRan, scanner,
                   observer, chList, chLoaded, rIdx, notifs, missed, walletInit, svc>>

\* main.go:487-498
PP_GetBlockOffset ==
    /\ pc = "pp_offset"
    /\ \E bo \in GetBlockOffsetResults :
         IF bo.err # "none"
           THEN IF bo.err # "notfound"
                  THEN Fatal("offset") /\ UNCHANGED seqno
                  ELSE /\ seqno' = 0
                       /\ pc' = "pp_scanner"
                       /\ UNCHANGED <<exited, fatalAt>>
           ELSE /\ seqno' = bo.seqno
                /\ pc' = "pp_scanner"
                /\ UNCHANGED <<exited, fatalAt>>
    /\ UNCHANGED <<nonBootVars, disk, freshDb, migVersion, migRan, scanner,
                   observer, chList, chLoaded, rIdx, notifs, missed, walletInit, svc>>

\* main.go:500-510
PP_StartScanner ==
    /\ pc = "pp_scanner"
    /\ \/ /\ scanner' = [started |-> TRUE, from |-> seqno]
          /\ pc' = "pp_observer"
          /\ UNCHANGED <<exited, fatalAt>>
       \/ /\ Fatal("scanner")
          /\ UNCHANGED scanner
    /\ UNCHANGED <<nonBootVars, disk, freshDb, migVersion, migRan, seqno,
                   observer, chList, chLoaded, rIdx, notifs, missed, walletInit, svc>>

\* faulty variant: the callback is not registered before the channels are loaded
PP_SetObserver_Skipped ==
    /\ pc = "pp_observer"
    /\ pc' = "pp_channels"
    /\ UNCHANGED <<nonBootVars, exited, fatalAt, disk, freshDb, migVersion, migRan,
                   seqno, scanner, observer, chList, chLoaded, rIdx, notifs, missed,
                   walletInit, svc>>

\* main.go:511
PP_SetObserver ==
    /\ pc = "pp_observer"
    /\ observer' = TRUE
    /\ pc' = "pp_channels"
    /\ UNCHANGED <<nonBootVars, exited, fatalAt, disk, freshDb, migVersion, migRan,
                   seqno, scanner, chList, chLoaded, rIdx, notifs, missed,
                   walletInit, svc>>

\* fdb.GetChannels(nil, ChannelStateAny): every stored channel, in store order
StoredChannels == [i \in 1..Len(disk.channels) |-> [id |-> i, status |-> disk.channels[i]]]

\* main.go:513-517
PP_GetChannels ==
    /\ pc = "pp_channels"
    /\ \/ /\ chList' = StoredChannels
          /\ chLoaded' = TRUE
          /\ rIdx' = 1
          /\ pc' = "pp_replay"
          /\ UNCHANGED <<exited, fatalAt>>
       \/ /\ Fatal("channels")
          /\ UNCHANGED <<chList, chLoaded, rIdx>>
    /\ UNCHANGED <<nonBootVars, disk, freshDb, migVersion, migRan, seqno, scanner,
                   observer, notifs, missed, walletInit, svc>>

\* faulty variant: the replay does not skip the inactive channels
Replayed_All(channel) == TRUE

\* main.go:520
Replayed(channel) == channel.status # "Inactive"

\* main.go:519-523, one iteration of the replay loop
PP_Replay ==
    /\ pc = "pp_replay"
    /\ rIdx <= Len(chList)
    /\ notifs' = IF Replayed(chList[rIdx])
                   THEN Append(notifs, [chan |-> chList[rIdx].id, flag |-> TRUE,
                                        src |-> "replay"])
                   ELSE notifs
    /\ rIdx' = rIdx + 1
    /\ UNCHANGED <<nonBootVars, pc, exited, fatalAt, disk, freshDb, migVersion, migRan,
                   seqno, scanner, observer, chList, chLoaded, missed, walletInit, svc>>

\* main.go:525-530
PP_InitWallet ==
    /\ pc = "pp_replay"
    /\ rIdx > Len(chList)
    /\ \/ /\ walletInit' = TRUE
          /\ pc' = "pp_service"
          /\ UNCHANGED <<exited, fatalAt>>
       \/ /\ Fatal("wallet")
          /\ UNCHANGED walletInit
    /\ UNCHANGED <<nonBootVars, disk, freshDb, migVersion, migRan, seqno, scanner,
                   observer, chList, chLoaded, rIdx, notifs, missed, svc>>

\* main.go:532-536
PP_NewService ==
    /\ pc = "pp_service"
    /\ \/ /\ svc' = "created"
          /\ pc' = "pp_return"
          /\ UNCHANGED <<exited, fatalAt>>
       \/ /\ Fatal("service")
          /\ UNCHANGED svc
    /\ UNCHANGED <<nonBootVars, disk, freshDb, migVersion, migRan, seqno, scanner,
                   observer, chList, chLoaded, rIdx, notifs, missed, walletInit>>

\* main.go:537-540
PP_Return ==
    /\ pc = "pp_return"
    /\ pc' = "main_go_pm"
    /\ UNCHANGED <<nonBootVars, exited, fatalAt, disk, freshDb, migVersion, migRan,
                   seqno, scanner, observer, chList, chLoaded, rIdx, notifs, missed,
                   walletInit, svc>>

\* main.go:210-211: go pm.Start()
Main_GoPmStart ==
    /\ pc = "main_go_pm"
    /\ svc' = "running"
    /\ pc' = "main_key"
    /\ UNCHANGED <<nonBootVars, exited, fatalAt, disk, freshDb, migVersion, migRan,
                   seqno, scanner, observer, chList, chLoaded, rIdx, notifs, missed,
                   walletInit>>

LiveUpdates == Len(SelectSeq(notifs, LAMBDA n : n.src = "live")) + missed

\* a channel update written to the store by the payment service, which holds
\* fdb from main.go:532 on and whose transport is wired at main.go:537; the
\* store calls the registered callback, if there is one (chan 0: some channel,
\* which one is not told apart)
Svc_ChannelUpdate ==
    /\ svc # "none"
    /\ ~exited
    /\ LiveUpdates < MaxLive
    /\ \E f \in BOOLEAN :
         IF observer
           THEN /\ notifs' = Append(notifs, [chan |-> 0, flag |-> f, src |-> "live"])
                /\ UNCHANGED missed
           ELSE /\ missed' = missed + 1
                /\ UNCHANGED notifs
    /\ UNCHANGED <<nonBootVars, pc, exited, fatalAt, disk, freshDb, migVersion, migRan,
                   seqno, scanner, observer, chList, chLoaded, rIdx, walletInit, svc>>

\* ------------------------------------------------- console loop of main
Sections == 1..NumSections
CtxIds == 0..MaxCtx
TaskIds == 1..MaxCtx

NoTask == [pc |-> "idle", wait |-> 0, prev |-> {}]
\* main.go:277, the goroutine has returned
DoneTask == [pc |-> "done", wait |-> 0, prev |-> {}]
NoOut == [kind |-> "none", total |-> 0, errs |-> 0]
\* a command that read no further input and called nothing
NoLog == [cmd |-> "none", reads |-> 0, parsed |-> {}, calls |-> <<>>]
\* the log of a payment or wallet command, as it is dispatched
LogOf(val) == [NoLog EXCEPT !.cmd = val]
\* a log line without figures
OutMsg(kind) == [kind |-> kind, total |-> 0, errs |-> 0]

\* what channel.CalcBalance answers for one flag value: an amount or an error
CalcResults == {[ok |-> FALSE, v |-> 0]} \cup [ok : {TRUE}, v : 1..MaxAmount]
\* an Active channel at console time: CalcBalance(false) and CalcBalance(true)
ConsoleChannel == [balance : CalcResults, capacity : CalcResults]

\* main.go:269: case <-speedPrinterCtx.Done() is ready
SamplerOff == speedPrinterCtx \in cancelled

\* faulty variant: the second speed does not cancel the context
Cmd_Speed_NoCancel ==
    /\ pc = "con_read"
    /\ IF SamplerOff
         THEN /\ speedPrinterCtx < MaxCtx
              /\ speedPrinterCtx' = speedPrinterCtx + 1
              /\ tasks' = [tasks EXCEPT ![speedPrinterCtx + 1] =
                              [pc |-> "start", wait |-> speedPrinterCtx + 1, prev |-> {}]]
              /\ episode' = "one"
              /\ epLines' = 0
              /\ UNCHANGED cancelled
         ELSE /\ episode' = IF episode = "one" THEN "two" ELSE "none"
              /\ epLines' = IF episode = "one" THEN epLines ELSE 0
              /\ UNCHANGED <<speedPrinterCtx, tasks, cancelled>>
    /\ speeds' = speeds + 1
    /\ out' = NoOut
    /\ cmdLog' = NoLog
    /\ UNCHANGED <<nonConVars, pc, exited, cfgPayments, gateStarted, pmtService, wlt,
                   apiClient, gwSections, active>>

\* main.go:267-296, the speed command
Cmd_Speed ==
    /\ pc = "con_read"
    /\ IF SamplerOff
         THEN /\ speedPrinterCtx < MaxCtx
              /\ speedPrinterCtx' = speedPrinterCtx + 1
              /\ tasks' = [tasks EXCEPT ![speedPrinterCtx + 1] =
                              [pc |-> "start", wait |-> speedPrinterCtx + 1, prev |-> {}]]
              /\ episode' = "one"
              /\ epLines' = 0
              /\ UNCHANGED cancelled
         ELSE /\ cancelled' = cancelled \cup {speedPrinterCtx}
              /\ episode' = IF episode = "one" THEN "two" ELSE "none"
              /\ epLines' = IF episode = "one" THEN epLines ELSE 0
              /\ UNCHANGED <<speedPrinterCtx, tasks>>
    /\ speeds' = speeds + 1
    /\ out' = NoOut
    /\ cmdLog' = NoLog
    /\ UNCHANGED <<nonConVars, pc, exited, cfgPayments, gateStarted, pmtService, wlt,
                   apiClient, gwSections, active>>

\* main.go:273, the goroutine takes its first snapshot
T_Start(k) ==
    /\ tasks[k].pc = "start"
    /\ tasks' = [tasks EXCEPT ![k].pc = "top", ![k].prev = gwSections]
    /\ UNCHANGED <<nonConVars, pc, exited, cfgPayments, gateStarted, speeds, pmtService, wlt,
                   apiClient, speedPrinterCtx,
                   cancelled, gwSections, active, out, cmdLog, episode, epLines>>

\* main.go:276: the goroutine reads the shared variable speedPrinterCtx, which
\* the console writes at main.go:270 without synchronisation: the read gives
\* the context the variable holds now or the one the goroutine saw last
CtxRead(k) == {speedPrinterCtx, tasks[k].wait}

\* main.go:275-278, the top of the loop: the select is entered with a fresh
\* one-second timer, so a context that is already done ends the goroutine
T_Top(k) ==
    /\ tasks[k].pc = "top"
    /\ \E c \in CtxRead(k) :
         tasks' = [tasks EXCEPT ![k] =
                      IF c \in cancelled
                        THEN DoneTask
                        ELSE [pc |-> "select", wait |-> c, prev |-> tasks[k].prev]]
    /\ UNCHANGED <<nonConVars, pc, exited, cfgPayments, gateStarted, speeds, pmtService, wlt,
                   apiClient, speedPrinterCtx,
                   cancelled, gwSections, active, out, cmdLog, episode, epLines>>

\* main.go:276-277, the context the goroutine waits on is done
T_Exit(k) ==
    /\ tasks[k].pc = "select"
    /\ tasks[k].wait \in cancelled
    /\ tasks' = [tasks EXCEPT ![k] = DoneTask]
    /\ UNCHANGED <<nonConVars, pc, exited, cfgPayments, gateStarted, speeds, pmtService, wlt,
                   apiClient, speedPrinterCtx,
                   cancelled, gwSections, active, out, cmdLog, episode, epLines>>

\* main.go:280-288: one line for each section of stats that prev holds too
RateLines(stats, prev) == Cardinality({s \in stats : s \in prev})

\* main.go:278-289, the timer fires: log the rates, keep the snapshot
T_Tick(k) ==
    /\ tasks[k].pc = "select"
    /\ LET stats == gwSections IN
         /\ epLines' = IF episode = "none"
                         THEN 0
                         ELSE Min(epLines + RateLines(stats, tasks[k].prev), MaxLines)
         /\ tasks' = [tasks EXCEPT ![k].pc = "top", ![k].prev = stats]
    /\ UNCHANGED <<nonConVars, pc, exited, cfgPayments, gateStarted, speeds, pmtService, wlt,
                   apiClient, speedPrinterCtx,
                   cancelled, gwSections, active, out, cmdLog, episode>>

\* the tunnel gateway (main.go:245-251) opens and drops sections as traffic
\* flows
GW_Traffic ==
    /\ \E s \in Sections :
         gwSections' = IF s \in gwSections THEN gwSections \ {s} ELSE gwSections \cup {s}
    /\ UNCHANGED <<nonConVars, pc, exited, cfgPayments, gateStarted, speeds, pmtService, wlt,
                   apiClient, speedPrinterCtx,
                   cancelled, tasks, active, out, cmdLog, episode, epLines>>

\* main.go:260-264, Scanln fails: log, sleep 100 ms, read again
Con_ReadFail ==
    /\ pc = "con_read"
    /\ out' = NoOut
    /\ cmdLog' = NoLog
    /\ UNCHANGED <<nonConVars, pc, exited, cfgPayments, gateStarted, speeds, pmtService, wlt,
                   apiClient, speedPrinterCtx,
                   cancelled, tasks, gwSections, active, episode, epLines>>

\* faulty variant: the stats command cancels the sampler's context
Cmd_Stats_Cancels ==
    /\ pc = "con_read"
    /\ out' = NoOut
    /\ cmdLog' = NoLog
    /\ episode' = "none"
    /\ epLines' = 0
    /\ cancelled' = cancelled \cup {speedPrinterCtx}
    /\ UNCHANGED <<nonConVars, pc, exited, cfgPayments, gateStarted, speeds, pmtService, wlt,
                   apiClient, speedPrinterCtx, tasks, gwSections, active>>

\* main.go:297-308, the stats command: one line per section
Cmd_Stats ==
    /\ pc = "con_read"
    /\ out' = NoOut
    /\ cmdLog' = NoLog
    /\ episode' = "none"
    /\ epLines' = 0
    /\ UNCHANGED <<nonConVars, pc, exited, cfgPayments, gateStarted, speeds, pmtService, wlt,
                   apiClient, speedPrinterCtx,
                   cancelled, tasks, gwSections, active>>

\* main.go:266-402, a token that matches no case of the switch
Cmd_Unknown ==
    /\ pc = "con_read"
    /\ out' = NoOut
    /\ cmdLog' = NoLog
    /\ episode' = "none"
    /\ epLines' = 0
    /\ UNCHANGED <<nonConVars, pc, exited, cfgPayments, gateStarted, speeds, pmtService, wlt,
                   apiClient, speedPrinterCtx,
                   cancelled, tasks, gwSections, active>>

\* main.go:323: channel.CalcBalance(val == "capacity")
CalcBalance(channel, isCapacity) ==
    IF isCapacity THEN channel.capacity ELSE channel.balance

RECURSIVE SumLoop_StopsAtError(_, _, _, _)
\* faulty variant: the first channel whose computation fails ends the summation
SumLoop_StopsAtError(chans, val, i, acc) ==
    IF i > Len(chans)
      THEN acc
      ELSE LET r == CalcBalance(chans[i], val = "capacity") IN
           IF ~r.ok
             THEN [acc EXCEPT !.errs = acc.errs + 1]
             ELSE SumLoop_StopsAtError(chans, val, i + 1,
                                       [acc EXCEPT !.amount = acc.amount + r.v])

RECURSIVE SumLoop(_, _, _, _)
\* main.go:321-329, the loop from channel i on: [amount, errs]
SumLoop(chans, val, i, acc) ==
    IF i > Len(chans)
      THEN acc
      ELSE LET r == CalcBalance(chans[i], val = "capacity") IN
           IF ~r.ok
             THEN SumLoop(chans, val, i + 1, [acc EXCEPT !.errs = acc.errs + 1])
             ELSE SumLoop(chans, val, i + 1, [acc EXCEPT !.amount = acc.amount + r.v])

\* main.go:309-336, the balance and capacity commands
Cmd_Aggregate(val) ==
    /\ pc = "con_read"
    /\ IF ~pmtService
         THEN /\ out' = [kind |-> "payments are not enabled", total |-> 0, errs |-> 0]
              /\ cmdLog' = LogOf(val)
         ELSE /\ cmdLog' = [LogOf(val) EXCEPT !.calls = <<"ListChannels">>]
              /\ \/ out' = [kind |-> "Failed to list channels", total |-> 0, errs |-> 0]
                 \/ LET sum == SumLoop(active, val, 1, [amount |-> 0, errs |-> 0]) IN
                      out' = [kind |-> val, total |-> sum.amount, errs |-> sum.errs]
    /\ episode' = "none"
    /\ epLines' = 0
    /\ UNCHANGED <<nonConVars, pc, exited, cfgPayments, gateStarted, speeds, pmtService, wlt,
                   apiClient, speedPrinterCtx,
                   cancelled, tasks, gwSections, active>>

\* a method called on a nil handle: the runtime panics and the process ends
Panic ==
    /\ pc' = "exit"
    /\ exited' = TRUE
    /\ out' = OutMsg("panic: nil pointer dereference")

\* main.go:337-355, the wallet-ton-balance command
Cmd_WalletBalance ==
    /\ pc = "con_read"
    /\ IF ~wlt
         THEN /\ out' = OutMsg("payments are not enabled")
              /\ cmdLog' = LogOf("wallet-ton-balance")
              /\ UNCHANGED <<pc, exited>>
         ELSE IF ~apiClient
           THEN Panic /\ cmdLog' = LogOf("wallet-ton-balance")
           ELSE /\ \/ /\ out' = OutMsg("failed to get current masterchain info")
                      /\ cmdLog' = [LogOf("wallet-ton-balance") EXCEPT
                                      !.calls = <<"CurrentMasterchainInfo">>]
                   \/ /\ out' \in {OutMsg("failed to get balance"), OutMsg("wallet balance")}
                      /\ cmdLog' = [LogOf("wallet-ton-balance") EXCEPT
                                      !.calls = <<"CurrentMasterchainInfo", "GetBalance">>]
                /\ UNCHANGED <<pc, exited>>
    /\ episode' = "none"
    /\ epLines' = 0
    /\ UNCHANGED <<nonConVars, cfgPayments, gateStarted, speeds, pmtService, wlt, apiClient,
                   speedPrinterCtx, cancelled, tasks, gwSections, active>>

\* faulty variant: the transfer prompts without checking the wallet
Cmd_WalletTransfer_NoCheck ==
    /\ pc = "con_read"
    /\ out' = NoOut
    /\ cmdLog' = LogOf("wallet-ton-transfer")
    /\ pc' = "tr_addr"
    /\ episode' = "none"
    /\ epLines' = 0
    /\ UNCHANGED <<nonConVars, exited, cfgPayments, gateStarted, speeds, pmtService, wlt, apiClient,
                   speedPrinterCtx, cancelled, tasks, gwSections, active>>

\* main.go:356-362, the wallet-ton-transfer command up to its first prompt
Cmd_WalletTransfer ==
    /\ pc = "con_read"
    /\ cmdLog' = LogOf("wallet-ton-transfer")
    /\ IF ~wlt
         THEN /\ out' = OutMsg("payments are not enabled")
              /\ UNCHANGED pc
         ELSE /\ out' = NoOut
              /\ pc' = "tr_addr"
    /\ episode' = "none"
    /\ epLines' = 0
    /\ UNCHANGED <<nonConVars, exited, cfgPayments, gateStarted, speeds, pmtService, wlt, apiClient,
                   speedPrinterCtx, cancelled, tasks, gwSections, active>>

\* what the operator's line is to the parser that gets it: well formed, or
\* malformed (an empty line and a failed Scanln, whose error is dropped, leave
\* the empty string, which does not parse)
Lines == {"ok", "bad"}

\* faulty variant: a malformed address is logged and the prompts go on
Tr_ReadAddr_KeepsReading ==
    /\ pc = "tr_addr"
    /\ \E line \in Lines :
         IF line = "ok"
           THEN /\ cmdLog' = [cmdLog EXCEPT !.reads = @ + 1, !.parsed = @ \cup {"addr"}]
                /\ UNCHANGED out
           ELSE /\ cmdLog' = [cmdLog EXCEPT !.reads = @ + 1]
                /\ out' = OutMsg("incorrect format of address")
    /\ pc' = "tr_amount"
    /\ UNCHANGED <<nonConVars, exited, cfgPayments, gateStarted, speeds, pmtService, wlt, apiClient,
                   speedPrinterCtx, cancelled, tasks, gwSections, active, episode, epLines>>

\* main.go:364-371: read the address line and parse it
Tr_ReadAddr ==
    /\ pc = "tr_addr"
    /\ \E line \in Lines :
         IF line = "ok"
           THEN /\ cmdLog' = [cmdLog EXCEPT !.reads = @ + 1, !.parsed = @ \cup {"addr"}]
                /\ pc' = "tr_amount"
                /\ UNCHANGED out
           ELSE /\ cmdLog' = [cmdLog EXCEPT !.reads = @ + 1]
                /\ out' = OutMsg("incorrect format of address")
                /\ pc' = "con_read"
    /\ UNCHANGED <<nonConVars, exited, cfgPayments, gateStarted, speeds, pmtService, wlt, apiClient,
                   speedPrinterCtx, cancelled, tasks, gwSections, active, episode, epLines>>

\* faulty variant: an amount that does not parse is taken as it is
Tr_ReadAmount_IgnoresError ==
    /\ pc = "tr_amount"
    /\ \E line \in Lines :
         cmdLog' = [cmdLog EXCEPT !.reads = @ + 1,
                                  !.parsed = IF line = "ok" THEN @ \cup {"amt"} ELSE @]
    /\ pc' = "tr_comment"
    /\ UNCHANGED out
    /\ UNCHANGED <<nonConVars, exited, cfgPayments, gateStarted, speeds, pmtService, wlt, apiClient,
                   speedPrinterCtx, cancelled, tasks, gwSections, active, episode, epLines>>

\* main.go:373-381: read the amount line and parse it
Tr_ReadAmount ==
    /\ pc = "tr_amount"
    /\ \E line \in Lines :
         IF line = "ok"
           THEN /\ cmdLog' = [cmdLog EXCEPT !.reads = @ + 1, !.parsed = @ \cup {"amt"}]
                /\ pc' = "tr_comment"
                /\ UNCHANGED out
           ELSE /\ cmdLog' = [cmdLog EXCEPT !.reads = @ + 1]
                /\ out' = OutMsg("incorrect format of amount")
                /\ pc' = "con_read"
    /\ UNCHANGED <<nonConVars, exited, cfgPayments, gateStarted, speeds, pmtService, wlt, apiClient,
                   speedPrinterCtx, cancelled, tasks, gwSections, active, episode, epLines>>

\* main.go:383-390: read the comment line (any line will do) and announce
\* the transfer
Tr_ReadComment ==
    /\ pc = "tr_comment"
    /\ cmdLog' = [cmdLog EXCEPT !.reads = @ + 1]
    /\ pc' = "tr_wait"
    /\ UNCHANGED out
    /\ UNCHANGED <<nonConVars, exited, cfgPayments, gateStarted, speeds, pmtService, wlt, apiClient,
                   speedPrinterCtx, cancelled, tasks, gwSections, active, episode, epLines>>

\* main.go:392-401: the three-second grace period, then the transfer, which
\* blocks until the transaction is on chain or has failed
Tr_Submit ==
    /\ pc = "tr_wait"
    /\ IF ~pmtService
         THEN /\ Panic
              /\ cmdLog' = [cmdLog EXCEPT !.calls = <<"Sleep">>]
         ELSE /\ cmdLog' = [cmdLog EXCEPT !.calls =
                               <<"Sleep", "GetPrivateKey", "TransferWaitTransaction">>]
              /\ out' \in {OutMsg("failed to transfer"),
                           OutMsg("transfer transaction committed")}
              /\ pc' = "con_read"
              /\ UNCHANGED exited
    /\ UNCHANGED <<nonConVars, cfgPayments, gateStarted, speeds, pmtService, wlt, apiClient,
                   speedPrinterCtx, cancelled, tasks, gwSections, active, episode, epLines>>

\* ------------------------------------------------- main, around the parts
\* main.go:205: payments are set up only when the configuration enables them
Main_Payments ==
    /\ pc = "main_start"
    /\ pc' = IF cfgPayments THEN "pp_connect" ELSE "main_gate"
    /\ UNCHANGED <<selVars, bootVars, conVars, exited>>

\* what the -payment-node flag can hold: nothing, the hex of a key of any
\* length, or something that is not hex
FlagInputs ==
    {[kind |-> "empty", key |-> NoKey], [kind |-> "nothex", key |-> NoKey]}
    \cup [kind : {"hex"}, key : ValidKeys \cup {ShortKey}]

\* main.go:213-224: decode and check the counterparty key
Main_ParseKey ==
    /\ pc = "main_key"
    /\ \E f \in FlagInputs :
         CASE f.kind = "empty" ->
                /\ pc' = "sel_list"
                /\ UNCHANGED <<ch, exited, fatalAt>>
           [] f.kind = "nothex" ->
                /\ Fatal("key")
                /\ UNCHANGED ch
           [] OTHER ->
                IF f.key.len # PublicKeySize
                  THEN Fatal("key") /\ UNCHANGED ch
                  ELSE /\ ch' = f.key
                       /\ pc' = "sel_list"
                       /\ UNCHANGED <<exited, fatalAt>>
    /\ UNCHANGED <<conVars, store, list, idx, best, bestAmount, selIdx, openCalls, addr,
                   chan, polls, lastPoll, ret, disk, freshDb, migVersion, migRan, seqno,
                   scanner, observer, chList, chLoaded, rIdx, notifs, missed, walletInit,
                   svc>>

\* faulty variant: the chain client returned by preparePayments is dropped
Main_AfterChannel_NoApi ==
    /\ pc \in {"sel_ok", "sel_err"}
    /\ IF ret.err # "none"
         THEN /\ Fatal("channel")
              /\ UNCHANGED <<pmtService, wlt, apiClient>>
         ELSE /\ pmtService' = (svc # "none")
              /\ wlt' = walletInit
              /\ UNCHANGED apiClient
              /\ pc' = "main_gate"
              /\ UNCHANGED <<exited, fatalAt>>
    /\ UNCHANGED <<selVars, cfgPayments, gateStarted, speedPrinterCtx, cancelled, tasks,
                   gwSections, active, out, episode, epLines, speeds, cmdLog, disk, freshDb,
                   migVersion, migRan, seqno, scanner, observer, chList, chLoaded, rIdx,
                   notifs, missed, walletInit, svc>>

\* faulty variant: a failure of preparePaymentChannel is logged and main goes on
Main_AfterChannel_IgnoresError ==
    /\ pc \in {"sel_ok", "sel_err"}
    /\ pmtService' = (svc # "none")
    /\ wlt' = walletInit
    /\ apiClient' = TRUE
    /\ pc' = "main_gate"
    /\ UNCHANGED <<exited, fatalAt>>
    /\ UNCHANGED <<selVars, cfgPayments, gateStarted, speedPrinterCtx, cancelled, tasks,
                   gwSections, active, out, episode, epLines, speeds, cmdLog, disk, freshDb,
                   migVersion, migRan, seqno, scanner, observer, chList, chLoaded, rIdx,
                   notifs, missed, walletInit, svc>>

\* main.go:226-238: preparePaymentChannel has returned; on an error the
\* process ends, otherwise the three handles are set from what preparePayments
\* returned (the service of main.go:532, the wallet of main.go:525 and the
\* chain client of main.go:451, whose construction cannot fail)
Main_AfterChannel ==
    /\ pc \in {"sel_ok", "sel_err"}
    /\ IF ret.err # "none"
         THEN /\ Fatal("channel")
              /\ UNCHANGED <<pmtService, wlt, apiClient>>
         ELSE /\ pmtService' = (svc # "none")
              /\ wlt' = walletInit
              /\ apiClient' = TRUE
              /\ pc' = "main_gate"
              /\ UNCHANGED <<exited, fatalAt>>
    /\ UNCHANGED <<selVars, cfgPayments, gateStarted, speedPrinterCtx, cancelled, tasks,
                   gwSections, active, out, episode, epLines, speeds, cmdLog, disk, freshDb,
                   migVersion, migRan, seqno, scanner, observer, chList, chLoaded, rIdx,
                   notifs, missed, walletInit, svc>>

\* main.go:240-251: the tunnel gateway is created and started in a goroutine
Main_StartGateway ==
    /\ pc = "main_gate"
    /\ gateStarted' = TRUE
    /\ pc' = "main_ctx"
    /\ UNCHANGED <<selVars, bootVars, exited, cfgPayments, pmtService, wlt, apiClient,
                   speedPrinterCtx, cancelled, tasks, gwSections, active, out, episode,
                   epLines, speeds, cmdLog>>

\* main.go:253-257: the sampler's context is created and cancelled at once,
\* then the console loop starts
Main_InitSampler ==
    /\ pc = "main_ctx"
    /\ cancelled' = cancelled \cup {speedPrinterCtx}
    /\ pc' = "con_read"
    /\ UNCHANGED <<selVars, bootVars, exited, cfgPayments, gateStarted, pmtService, wlt,
                   apiClient, speedPrinterCtx, tasks, gwSections, active, out, episode,
                   epLines, speeds, cmdLog>>

\* --------------------------------------------------------- specifications
\* the bootstrap has not run
BootIdle ==
    /\ disk = FreshDisk
    /\ freshDb = FALSE
    /\ migVersion = 0
    /\ migRan = <<>>
    /\ seqno = 0
    /\ scanner = [started |-> FALSE, from |-> 0]
    /\ observer = FALSE
    /\ chList = <<>>
    /\ chLoaded = FALSE
    /\ rIdx = 1
    /\ notifs = <<>>
    /\ missed = 0
    /\ walletInit = FALSE
    /\ svc = "none"
    /\ fatalAt = "none"

\* the selector has not run
SelIdle ==
    /\ ch = NoKey
    /\ store = [ok |-> FALSE, chans |-> <<>>]
    /\ list = <<>>
    /\ idx = 1
    /\ best = NoKey
    /\ bestAmount = 0
    /\ selIdx = 0
    /\ openCalls = <<>>
    /\ addr = 0
    /\ chan = NoChan
    /\ polls = 0
    /\ lastPoll = NoPoll
    /\ ret = NoRet

\* the console has not started
ConIdle ==
    /\ pmtService = FALSE
    /\ wlt = FALSE
    /\ apiClient = FALSE
    /\ speedPrinterCtx = 0
    /\ cancelled = {0}
    /\ tasks = [k \in TaskIds |-> NoTask]
    /\ gwSections = {}
    /\ active = <<>>
    /\ out = NoOut
    /\ episode = "none"
    /\ epLines = 0
    /\ cmdLog = NoLog
    /\ speeds = 0
    /\ gateStarted = FALSE

\* preparePaymentChannel on a node whose store lists no channel (or fails to
\* list), so that every run that gets that far deploys one and waits for it;
\* the loop of main.go:598-616 keeps polling every 500 ms, hence the fairness
InitWait ==
    /\ pc = "sel_list"
    /\ exited = FALSE
    /\ ch \in {NoKey} \cup ValidKeys
    /\ store \in [ok : BOOLEAN, chans : {<<>>}]
    /\ list = <<>>
    /\ idx = 1
    /\ best = NoKey
    /\ bestAmount = 0
    /\ selIdx = 0
    /\ openCalls = <<>>
    /\ addr = 0
    /\ chan = NoChan
    /\ polls = 0
    /\ lastPoll = NoPoll
    /\ ret = NoRet
    /\ BootIdle
    /\ ConIdle
    /\ cfgPayments = TRUE

NextWait ==
    \/ Sel_List
    \/ Sel_AfterLoop
    \/ Sel_Prompt
    \/ Sel_CheckLen
    \/ Sel_Open
    \/ Sel_Poll
    \/ Env_Channel

SpecWait == InitWait /\ [][NextWait]_vars /\ WF_vars(Sel_Poll)

InitBoot ==
    /\ pc = "pp_connect"
    /\ exited = FALSE
    /\ SelIdle
    /\ disk \in DiskStates
    /\ freshDb = FALSE
    /\ migVersion = disk.version
    /\ migRan = <<>>
    /\ seqno = 0
    /\ scanner = [started |-> FALSE, from |-> 0]
    /\ observer = FALSE
    /\ chList = <<>>
    /\ chLoaded = FALSE
    /\ rIdx = 1
    /\ notifs = <<>>
    /\ missed = 0
    /\ walletInit = FALSE
    /\ svc = "none"
    /\ fatalAt = "none"
    /\ ConIdle
    /\ cfgPayments = TRUE

NextBoot ==
    \/ PP_Connect
    \/ PP_GateStart
    \/ PP_OpenDB
    \/ PP_Migrate
    \/ PP_GetBlockOffset
    \/ PP_StartScanner
    \/ PP_SetObserver
    \/ PP_GetChannels
    \/ PP_Replay
    \/ PP_InitWallet
    \/ PP_NewService
    \/ PP_Return
    \/ Main_GoPmStart
    \/ Svc_ChannelUpdate

SpecBoot == InitBoot /\ [][NextBoot]_vars

InitSel ==
    /\ pc = "sel_list"
    /\ exited = FALSE
    /\ ch \in {NoKey} \cup ValidKeys
    /\ store \in {[ok |-> FALSE, chans |-> <<>>]}
                \cup [ok : {TRUE}, chans : SeqsUpTo(ActiveChannel, MaxChannels)]
    /\ list = <<>>
    /\ idx = 1
    /\ best = NoKey
    /\ bestAmount = 0
    /\ selIdx = 0
    /\ openCalls = <<>>
    /\ addr = 0
    /\ chan = NoChan
    /\ polls = 0
    /\ lastPoll = NoPoll
    /\ ret = NoRet
    /\ BootIdle
    /\ ConIdle
    /\ cfgPayments = TRUE

NextSel ==
    \/ Sel_List
    \/ Sel_LoopStep
    \/ Sel_AfterLoop
    \/ Sel_Prompt
    \/ Sel_CheckLen
    \/ Sel_Open
    \/ Sel_Poll
    \/ Env_Channel

SpecSel == InitSel /\ [][NextSel]_vars

\* the console loop is entered at main.go:257 with the context of
\* main.go:253 already cancelled (main.go:254), with payments enabled or not
\* (main.go:205-239)
InitConWith(channelLists) ==
    /\ pc = "con_read"
    /\ exited = FALSE
    /\ SelIdle
    /\ BootIdle
    /\ \E enabled \in BOOLEAN :
         /\ cfgPayments = enabled
         /\ pmtService = enabled
         /\ wlt = enabled
         /\ apiClient = enabled
         /\ active \in (IF enabled THEN channelLists ELSE {<<>>})
    /\ speedPrinterCtx = 0
    /\ cancelled = {0}
    /\ tasks = [k \in TaskIds |-> NoTask]
    /\ gwSections \in SUBSET Sections
    /\ out = NoOut
    /\ episode = "none"
    /\ epLines = 0
    /\ cmdLog = NoLog
    /\ speeds = 0
    /\ gateStarted = TRUE

\* the commands that touch neither the sampler nor the wallet
NextAgg ==
    \/ Con_ReadFail
    \/ Cmd_Stats
    \/ Cmd_Unknown
    \/ \E val \in {"balance", "capacity"} : Cmd_Aggregate(val)
    \/ GW_Traffic

\* the wallet commands
NextWallet ==
    \/ Cmd_WalletBalance
    \/ Cmd_WalletTransfer
    \/ Tr_ReadAddr
    \/ Tr_ReadAmount
    \/ Tr_ReadComment
    \/ Tr_Submit

NextCon ==
    \/ NextAgg
    \/ NextWallet
    \/ Cmd_Speed
    \/ \E k \in TaskIds : T_Start(k)
    \/ \E k \in TaskIds : T_Top(k)
    \/ \E k \in TaskIds : T_Exit(k)
    \/ \E k \in TaskIds : T_Tick(k)

\* the console with its sampler, over a store without Active channels
InitCon == InitConWith({<<>>})
SpecCon == InitCon /\ [][NextCon]_vars

\* the commands without the sampler, over every store up to MaxChannels
InitAgg == InitConWith(SeqsUpTo(ConsoleChannel, MaxChannels))
SpecAgg == InitAgg /\ [][NextAgg]_vars

\* the stores of the runs of the whole of main: none yet, or one left by an
\* earlier run of this version, holding Active channels only
MainDisks ==
    {FreshDisk} \cup
    [exists : {TRUE}, version : {NumMigrations},
     cursor : {[present |-> TRUE, seqno |-> MaxSeqno]},
     channels : SeqsUpTo({"Active"}, MainChannels)]

\* what ListChannels(Active) can return over the store d
MainStores(d) ==
    {[ok |-> FALSE, chans |-> <<>>]} \cup
    [ok : {TRUE},
     chans : [1..Len(SelectSeq(d.channels, LAMBDA s : s = "Active")) -> ActiveChannel]]

\* main from main.go:202 on, the gateways and the DHT client being up
InitMain ==
    /\ pc = "main_start"
    /\ exited = FALSE
    /\ cfgPayments \in BOOLEAN
    /\ disk \in (IF cfgPayments THEN MainDisks ELSE {FreshDisk})
    /\ store \in (IF cfgPayments THEN MainStores(disk) ELSE {[ok |-> FALSE, chans |-> <<>>]})
    /\ ch = NoKey
    /\ list = <<>>
    /\ idx = 1
    /\ best = NoKey
    /\ bestAmount = 0
    /\ selIdx = 0
    /\ openCalls = <<>>
    /\ addr = 0
    /\ chan = NoChan
    /\ polls = 0
    /\ lastPoll = NoPoll
    /\ ret = NoRet
    /\ freshDb = FALSE
    /\ migVersion = disk.version
    /\ migRan = <<>>
    /\ seqno = 0
    /\ scanner = [started |-> FALSE, from |-> 0]
    /\ observer = FALSE
    /\ chList = <<>>
    /\ chLoaded = FALSE
    /\ rIdx = 1
    /\ notifs = <<>>
    /\ missed = 0
    /\ walletInit = FALSE
    /\ svc = "none"
    /\ fatalAt = "none"
    /\ gateStarted = FALSE
    /\ pmtService = FALSE
    /\ wlt = FALSE
    /\ apiClient = FALSE
    /\ speedPrinterCtx = 0
    /\ cancelled = {}
    /\ tasks = [k \in TaskIds |-> NoTask]
    /\ gwSections = {}
    /\ active = <<>>
    /\ out = NoOut
    /\ episode = "none"
    /\ epLines = 0
    /\ speeds = 0
    /\ cmdLog = NoLog

\* the steps of main around preparePayments, preparePaymentChannel and the
\* console
NextGlue ==
    \/ Main_Payments
    \/ Main_ParseKey
    \/ Main_AfterChannel
    \/ Main_StartGateway
    \/ Main_InitSampler

\* the whole of main, the operator using the wallet commands
NextMain ==
    \/ NextGlue
    \/ NextBoot
    \/ NextSel
    \/ NextWallet
    \/ Con_ReadFail
    \/ Cmd_Unknown

SpecMain == InitMain /\ [][NextMain]_vars

\* ------------------------------------------------------------- properties
SelRunning == pc \in {"sel_list", "sel_loop"}
SelReturned == pc \in {"sel_ok", "sel_err"}

\* indices of the listed channels whose counterparty key is k
Matches(k) == {i \in 1..Len(store.chans) : store.chans[i].key = k}
FirstMatch(k) == CHOOSE i \in Matches(k) : \A j \in Matches(k) : i <= j

\* an explicit key was passed and the store lists a channel with it
HasExplicitMatch == ch.len > 0 /\ store.ok /\ Matches(ch) # {}

\* C1: with an explicit counterparty key and an active channel of that
\* counterparty in the list, the selector returns that channel's key at the
\* iteration that meets it, whatever the deposits are, and neither deploys a
\* channel nor polls for readiness.
C1_ExplicitKeySelected ==
    HasExplicitMatch =>
        /\ openCalls = <<>>
        /\ polls = 0
        /\ lastPoll = NoPoll
        /\ ~SelRunning =>
             /\ pc = "sel_ok"
             /\ ret = [key |-> ch, err |-> "none"]
             /\ selIdx = FirstMatch(ch)
             /\ idx = selIdx

\* C1 witness: the requested channel was returned although another listed
\* channel holds a larger deposit.
C1_Witness ==
    /\ HasExplicitMatch
    /\ pc = "sel_ok"
    /\ \E j \in 1..Len(store.chans) :
         /\ store.chans[j].key # ch
         /\ store.chans[j].deposited > store.chans[selIdx].deposited

\* the last index among those holding the maximal deposit
LastMaxIdx(chans) ==
    CHOOSE i \in 1..Len(chans) :
        \A j \in 1..Len(chans) :
            /\ chans[j].deposited <= chans[i].deposited
            /\ j > i => chans[j].deposited < chans[i].deposited

\* no explicit key was passed and the store lists at least one channel
NoKeyNonEmpty == ch.len = 0 /\ store.ok /\ Len(store.chans) > 0

\* C2: without an explicit key and with a non-empty active list, the selector
\* returns, without deploying, the key of the channel with the maximal
\* deposit, the last one in list order among those tied at the maximum.
C2_MaxDepositLastWins ==
    NoKeyNonEmpty =>
        /\ openCalls = <<>>
        /\ polls = 0
        /\ ~SelRunning =>
             /\ pc = "sel_ok"
             /\ selIdx = LastMaxIdx(store.chans)
             /\ ret = [key |-> store.chans[LastMaxIdx(store.chans)].key, err |-> "none"]

\* C2 witness: two channels tie at the maximum, a smaller one follows them,
\* and the second of the tied ones was returned.
C2_Witness ==
    /\ NoKeyNonEmpty
    /\ pc = "sel_ok"
    /\ \E i \in 1..Len(store.chans) :
         /\ i < selIdx
         /\ store.chans[i].deposited = store.chans[selIdx].deposited
         /\ store.chans[i].key # store.chans[selIdx].key
    /\ selIdx < Len(store.chans)
    /\ store.chans[Len(store.chans)].deposited < store.chans[selIdx].deposited

\* the loop over the active list selected nothing
NothingSelected == store.ok /\ ~SelRunning /\ selIdx = 0

\* C3: when the loop selects no active channel and the counterparty key has
\* the public-key length, OpenChannelWithNode is called exactly once, with
\* that key; and a successful return after deployment happens only on a poll
\* of the deployed address that saw both readiness flags true together.
C3_DeployOnceThenReady ==
    /\ Len(openCalls) <= 1
    /\ openCalls # <<>> => NothingSelected /\ openCalls = <<ch>> /\ ch.len = PublicKeySize
    /\ (NothingSelected /\ ch.len = PublicKeySize /\ pc \notin {"sel_len", "sel_open"})
          => openCalls = <<ch>>
    /\ (NothingSelected /\ pc = "sel_ok") =>
          /\ addr \in Addrs
          /\ lastPoll = [addr |-> addr,
                         res |-> [err |-> "none", our |-> TRUE, their |-> TRUE]]
          /\ ret = [key |-> ch, err |-> "none"]

\* C3 witness: an explicit key matched none of the listed channels, the
\* channel was deployed and the selector returned after a poll that did not
\* yet find it ready.
C3_Witness ==
    /\ NothingSelected
    /\ pc = "sel_ok"
    /\ Len(store.chans) > 0
    /\ polls >= 2
    /\ openCalls = <<ch>>

\* C4: a poll answered NotFound leaves the selector in the readiness loop,
\* about to poll again, and never returns an error; a poll that fails with
\* another error returns an error at once, so that it stays the last poll.
C4_NotFoundRetried ==
    /\ lastPoll.res.err = "notfound" => pc = "sel_poll" /\ ret = NoRet
    /\ lastPoll.res.err = "other" => pc = "sel_err" /\ ret.err = "getchannel"
    /\ ret.err = "getchannel" => lastPoll.res.err = "other"

\* C4 witness: NotFound was answered to poll after poll and the selector is
\* still polling.
C4_Witness ==
    /\ pc = "sel_poll"
    /\ polls = MaxPolls
    /\ lastPoll.res.err = "notfound"
    /\ ~chan.visible

\* the migration step of preparePayments has succeeded
MigrateDone ==
    /\ pc \notin {"pp_connect", "pp_gate", "pp_opendb", "pp_migrate"}
    /\ fatalAt \notin {"connect", "gate", "leveldb", "setversion", "migrate"}

\* C5: on a newly created store the migration version is set to the number
\* of migrations and no migration runs; on an existing store at version
\* v < total the migrations v+1..total run in ascending order and the version
\* ends at total; when either path fails the process ends with the scanner
\* never started.
C5_FreshOrMigrated ==
    /\ ~disk.exists => migRan = <<>>
    /\ (MigrateDone /\ ~disk.exists) => migVersion = NumMigrations
    /\ (MigrateDone /\ disk.exists /\ disk.version < NumMigrations) =>
          /\ Len(migRan) = NumMigrations - disk.version
          /\ migRan[1] = disk.version + 1
          /\ \A i \in 1..(Len(migRan) - 1) : migRan[i + 1] = migRan[i] + 1
          /\ migVersion = NumMigrations
    /\ fatalAt \in {"setversion", "migrate"} =>
          exited /\ pc = "exit" /\ ~scanner.started

\* C5 witness: an existing store at version 0 has had every migration run.
C5_Witness ==
    /\ MigrateDone
    /\ disk.exists
    /\ disk.version = 0
    /\ Len(migRan) = NumMigrations
    /\ scanner.started

\* C6: the scanner is started and registered as the store's channel-update
\* observer before the channel list is loaded and before the first replay
\* notification, and no channel update is made while no observer is
\* registered.
C6_ObserverBeforeReplay ==
    /\ (pc = "pp_channels" \/ chLoaded \/ notifs # <<>>) =>
          scanner.started /\ observer
    /\ missed = 0

\* C6 witness: a channel update made after the list was read reached the
\* scanner.
C6_Witness ==
    /\ chLoaded
    /\ observer
    /\ \E i \in 1..Len(notifs) : notifs[i].src = "live"

\* the notifications the replay loop has issued so far
Replays == SelectSeq(notifs, LAMBDA n : n.src = "replay")
\* the stored channels that are not Inactive, in store order
NonInactive == SelectSeq(StoredChannels, LAMBDA c : c.status # "Inactive")
ReplayOver == chLoaded /\ ~(pc = "pp_replay" /\ rIdx <= Len(chList))

\* C7: with N stored channels that are not Inactive, startup notifies the
\* scanner exactly N times, once per such channel in store order, each time
\* with the flag set, never for an Inactive channel, and all of it before any
\* live channel update reaches the scanner.
C7_ReplayExactlyNonInactive ==
    /\ Len(NonInactive) =
          Cardinality({i \in 1..Len(disk.channels) : disk.channels[i] # "Inactive"})
    /\ Len(Replays) <= Len(NonInactive)
    /\ \A i \in 1..Len(Replays) :
          Replays[i] = [chan |-> NonInactive[i].id, flag |-> TRUE, src |-> "replay"]
    /\ ReplayOver => Len(Replays) = Len(NonInactive)
    /\ \A i \in 1..Len(notifs) :
          notifs[i].src = "live" =>
             /\ ReplayOver
             /\ \A j \in i..Len(notifs) : notifs[j].src = "live"

\* C7 witness: a store with an Inactive channel and two others has been
\* replayed, and a live update followed.
C7_Witness ==
    /\ ReplayOver
    /\ \E i \in 1..Len(disk.channels) : disk.channels[i] = "Inactive"
    /\ Len(Replays) >= 2
    /\ notifs[Len(notifs)].src = "live"

\* C8 (as stated): two successive speed commands, the first issued with the
\* sampler Off, leave the sampler Off with at most one rate line logged since
\* the first of them.
C8_TwoSpeedsAtMostOneLine ==
    episode = "two" => SamplerOff /\ epLines <= 1

\* C8 (amended): two successive speed commands, the first issued with the
\* sampler Off, leave the sampler Off, with every sampler goroutine that is
\* still waiting waiting on a cancelled context; the rate lines logged in
\* between are one batch per elapsed second and are not bounded by one.
C8_TwoSpeedsEndOff ==
    episode = "two" =>
        /\ SamplerOff
        /\ speedPrinterCtx >= 1
        /\ \A k \in TaskIds : tasks[k].pc = "select" => tasks[k].wait \in cancelled

\* C8 witness: the two speed commands were issued and more than one rate
\* line was logged between them.
C8_Witness ==
    /\ episode = "two"
    /\ epLines = MaxLines
    /\ SamplerOff

\* C9: a sampler goroutine whose context has been cancelled by a speed
\* command does not get past its next loop check: from the top of its loop it
\* ends, whatever the console did in between.
C9_CancelObserved ==
    [][\A k \in TaskIds :
          (tasks[k].pc = "top" /\ k \in cancelled) => tasks'[k].pc \in {"top", "done"}]_vars

RECURSIVE SumOver(_, _)
\* the sum of f over the finite set S
SumOver(S, f) ==
    IF S = {} THEN 0
    ELSE LET i == CHOOSE x \in S : TRUE IN f[i] + SumOver(S \ {i}, f)

\* the component a command reports, per channel
Component(kind) ==
    [i \in 1..Len(active) |->
        IF kind = "balance" THEN active[i].balance ELSE active[i].capacity]
Succeeded(kind) == {i \in 1..Len(active) : Component(kind)[i].ok}

\* C10: the total a balance or capacity command reports is the sum of that
\* component over exactly the Active channels whose computation succeeded;
\* each failing channel is logged and skipped.
C10_AggregateSkipsFailures ==
    out.kind \in {"balance", "capacity"} =>
        /\ pmtService
        /\ out.total = SumOver(Succeeded(out.kind),
                               [i \in 1..Len(active) |-> Component(out.kind)[i].v])
        /\ out.errs = Len(active) - Cardinality(Succeeded(out.kind))

\* C10 witness: a capacity command reported a total to which a channel
\* listed after a failing one contributed.
C10_Witness ==
    /\ out.kind = "capacity"
    /\ Len(active) >= 3
    /\ ~active[1].capacity.ok
    /\ active[2].capacity.ok
    /\ active[3].capacity.ok
    /\ active[2].balance.v # active[2].capacity.v
    /\ out.errs = 1
    /\ out.total = active[2].capacity.v + active[3].capacity.v

\* the block the persisted cursor stands for: its seqno, zero without a cursor
CursorSeqno == IF disk.cursor.present THEN disk.cursor.seqno ELSE 0

\* C12: the scanner is started from the persisted cursor's seqno when the
\* cursor read succeeds and from zero when the read reports "not found"; when
\* the read fails in any other way the process stops and the scanner is never
\* started.
C12_ScannerFromCursor ==
    /\ scanner.started => scanner.from = CursorSeqno
    /\ pc \in {"pp_scanner"} => seqno = CursorSeqno
    /\ fatalAt = "offset" => exited /\ ~scanner.started

\* the scanner runs from a cursor beyond block zero
C12_Witness ==
    /\ scanner.started
    /\ disk.cursor.present
    /\ scanner.from = MaxSeqno
    /\ scanner.from > 0

\* C13: when the open-channel request fails, the selector returns an error
\* (the deployment failure wrapping its cause) and no key; the open operation
\* was invoked once only and the deployed channel is never polled.
C13_OpenFailureReturns ==
    ret.err = "deploy" =>
        /\ pc = "sel_err"
        /\ ret.key = NoKey
        /\ Len(openCalls) = 1
        /\ polls = 0
        /\ lastPoll = NoPoll
        /\ chan = NoChan

\* the deployment asked for after an empty listing has failed
C13_Witness ==
    /\ ret.err = "deploy"
    /\ pc = "sel_err"
    /\ Len(openCalls) = 1
    /\ store.ok

\* the sampler goroutines waiting in their select on the token c
WaitingOn(c) == {k \in TaskIds : tasks[k].pc = "select" /\ tasks[k].wait = c}

\* C19: every sampler goroutine checks for cancellation against the token of
\* the enable that started it: no goroutine started by an earlier enable waits
\* on the token of a later one, and at most one goroutine waits on the
\* current, un-cancelled token.
C19_TaskWaitsOnOwnToken ==
    /\ \A k \in TaskIds : tasks[k].pc = "select" => tasks[k].wait = k
    /\ ~SamplerOff => Cardinality(WaitingOn(speedPrinterCtx)) <= 1

\* the deployed channel is ready on both sides
ChanReady == chan.visible /\ chan.our /\ chan.their

\* the last poll did not fail with an error other than "not found"
PollClean == lastPoll.res.err # "other"

\* the wait is left only by a poll that saw both sides ready (success) or by
\* a poll that failed with another error: never by a deadline or a count
WaitEndsOnlyOnPoll ==
    [][(pc = "sel_poll" /\ pc' # "sel_poll") =>
          \/ /\ pc' = "sel_ok"
             /\ ChanReady
             /\ lastPoll'.res = [err |-> "none", our |-> TRUE, their |-> TRUE]
          \/ /\ pc' = "sel_err"
             /\ lastPoll'.res.err = "other"]_vars

\* C18: the readiness wait has no deadline and no iteration bound. If from
\* some point on every poll succeeds with both flags true, the wait ends and
\* the selector returns successfully; while the channel stays not found or
\* not ready and no poll fails otherwise, the selector does not return.
C18_WaitUnbounded ==
    /\ (<>[]ChanReady /\ []PollClean) => [](pc = "sel_poll" => <>(pc = "sel_ok"))
    /\ WaitEndsOnlyOnPoll

\* the selector returned after the last counted poll, having waited
C18_Witness ==
    /\ pc = "sel_ok"
    /\ polls = MaxPolls
    /\ lastPoll.res = [err |-> "none", our |-> TRUE, their |-> TRUE]
    /\ ret = [key |-> ch, err |-> "none"]

\* the commands that need the payment service or the wallet
PaymentCmds == {"balance", "capacity", "wallet-ton-balance", "wallet-ton-transfer"}

\* C11: with payments not enabled (no payment service, no wallet) each of
\* balance, capacity, wallet-ton-balance and wallet-ton-transfer logs the
\* error, calls neither the payment service nor the chain client nor the
\* wallet, reads no further input, and leaves the console reading the next
\* command; the process does not end.
C11_DisabledCommandsReport ==
    (~pmtService /\ ~wlt) =>
        /\ pc = "con_read"
        /\ ~exited
        /\ cmdLog.reads = 0
        /\ cmdLog.calls = <<>>
        /\ cmdLog.cmd \in PaymentCmds => out = OutMsg("payments are not enabled")

\* a transfer was asked for on a node without payments
C11_Witness ==
    /\ ~pmtService
    /\ ~wlt
    /\ cmdLog = LogOf("wallet-ton-transfer")
    /\ out = OutMsg("payments are not enabled")
    /\ pc = "con_read"

\* C15 as stated: whenever the console is back at reading a command after a
\* wallet-ton-transfer issued with the wallet initialized, the command has
\* made its three reads (address, amount, comment).
C15_AlwaysThreeReads ==
    (pc = "con_read" /\ cmdLog.cmd = "wallet-ton-transfer" /\ wlt) => cmdLog.reads = 3

\* C15, amended: a wallet-ton-transfer issued with the wallet initialized
\* reads the address, then the amount, then the comment, each after the one
\* before parsed; a malformed address ends the command after one read and a
\* malformed amount after two, and the console then reads its next command
\* token; only a transfer whose address and amount parse makes all three
\* reads before that.
C15_ReadsUntilMalformed ==
    (cmdLog.cmd = "wallet-ton-transfer" /\ wlt /\ ~exited) =>
        /\ pc \in {"tr_addr", "tr_amount", "tr_comment", "tr_wait", "con_read"}
        /\ pc = "tr_addr" => cmdLog.reads = 0 /\ cmdLog.parsed = {}
        /\ pc = "tr_amount" => cmdLog.reads = 1 /\ cmdLog.parsed = {"addr"}
        /\ pc = "tr_comment" => cmdLog.reads = 2 /\ cmdLog.parsed = {"addr", "amt"}
        /\ pc = "tr_wait" => cmdLog.reads = 3 /\ cmdLog.parsed = {"addr", "amt"}
        /\ pc = "con_read" =>
             \/ /\ out = OutMsg("incorrect format of address")
                /\ cmdLog.reads = 1 /\ cmdLog.parsed = {}
             \/ /\ out = OutMsg("incorrect format of amount")
                /\ cmdLog.reads = 2 /\ cmdLog.parsed = {"addr"}
             \/ /\ out \in {OutMsg("failed to transfer"),
                            OutMsg("transfer transaction committed")}
                /\ cmdLog.reads = 3 /\ cmdLog.parsed = {"addr", "amt"}

\* the console reads its next command after one read of a transfer
C15_Witness ==
    /\ pc = "con_read"
    /\ wlt
    /\ cmdLog.cmd = "wallet-ton-transfer"
    /\ cmdLog.reads = 1
    /\ out = OutMsg("incorrect format of address")

\* the operations the command has invoked
Invoked == {cmdLog.calls[i] : i \in 1..Len(cmdLog.calls)}

\* the number of transfers the command has submitted
Transfers == Cardinality({i \in 1..Len(cmdLog.calls) :
                            cmdLog.calls[i] = "TransferWaitTransaction"})

\* C16: a wallet-ton-transfer submits at most one transfer, and only with an
\* address and an amount that both parsed, after the comment was read and the
\* grace period slept; with a malformed address or amount nothing is
\* submitted, neither the wallet nor the payment service is called, and the
\* console goes on.
C16_TransferOnlyWhenParsed ==
    cmdLog.cmd = "wallet-ton-transfer" =>
        /\ Transfers <= 1
        /\ "TransferWaitTransaction" \in Invoked =>
              /\ cmdLog.parsed = {"addr", "amt"}
              /\ cmdLog.reads = 3
              /\ cmdLog.calls = <<"Sleep", "GetPrivateKey", "TransferWaitTransaction">>
        /\ out \in {OutMsg("incorrect format of address"),
                    OutMsg("incorrect format of amount")} =>
              /\ cmdLog.parsed # {"addr", "amt"}
              /\ cmdLog.calls = <<>>
              /\ pc = "con_read"
              /\ ~exited
        /\ cmdLog.parsed # {"addr", "amt"} => cmdLog.calls = <<>>

\* a transfer was submitted and committed
C16_Witness ==
    /\ cmdLog.cmd = "wallet-ton-transfer"
    /\ Transfers = 1
    /\ out = OutMsg("transfer transaction committed")
    /\ pc = "con_read"

\* C17: the sampler is Off before the first command and On exactly when the
\* number of speed commands processed is odd; the contexts created and
\* cancelled and the goroutines started are those of the speed commands
\* alone, so no other input flips the sampler or starts or cancels a task,
\* and the console keeps reading commands.
C17_SamplerParity ==
    /\ SamplerOff <=> speeds % 2 = 0
    /\ speedPrinterCtx = (speeds + 1) \div 2
    /\ cancelled = 0..(speeds \div 2)
    /\ \A k \in TaskIds : tasks[k] # NoTask <=> k <= speedPrinterCtx
    /\ ~exited
    /\ pc \in {"con_read", "tr_addr", "tr_amount", "tr_comment", "tr_wait"}

\* the sampler is On after three speed commands and a wallet command
C17_Witness ==
    /\ speeds = 3
    /\ ~SamplerOff
    /\ out = OutMsg("wallet balance")
    /\ pc = "con_read"

\* the background services that are running: goroutines end with the process
ScannerRunning == scanner.started /\ ~exited
ServiceRunning == svc = "running" /\ ~exited
GatewayRunning == gateStarted /\ ~exited

\* C14: when the scanner start, the channel load or the wallet
\* initialisation fails in preparePayments, startup stops there and nothing
\* runs in the background afterwards: the scanner, if it was started, has
\* ended with the process, the payment service was never created or started
\* and the tunnel gateway was never started.
C14_FatalLeavesNothingRunning ==
    fatalAt \in {"scanner", "channels", "wallet"} =>
        /\ exited
        /\ pc = "exit"
        /\ ~ScannerRunning
        /\ ~ServiceRunning
        /\ ~GatewayRunning
        /\ svc = "none"
        /\ ~gateStarted
        /\ ~walletInit

\* the wallet initialisation failed after the scanner had been started
C14_Witness ==
    /\ fatalAt = "wallet"
    /\ scanner.started
    /\ observer
    /\ exited

\* the positions of the main goroutine inside the console loop
ConsolePcs == {"con_read", "tr_addr", "tr_amount", "tr_comment", "tr_wait"}

\* C20: once the console loop runs, the wallet handle is set exactly when the
\* payment service and the chain client are set, the three keep the values
\* they had when the loop started (set with payments enabled, unset without),
\* and no wallet command that passed its wallet check has called a method of
\* an unset payment service or chain client.
C20_HandlesSetTogether ==
    /\ pc \in ConsolePcs =>
          /\ wlt <=> (pmtService /\ apiClient)
          /\ wlt = cfgPayments
          /\ pmtService = cfgPayments
          /\ apiClient = cfgPayments
    /\ out # OutMsg("panic: nil pointer dereference")

\* a wallet-ton-balance passed its check and used the chain client
C20_Witness ==
    /\ pc = "con_read"
    /\ wlt
    /\ cmdLog.cmd = "wallet-ton-balance"
    /\ cmdLog.calls = <<"CurrentMasterchainInfo", "GetBalance">>
    /\ out = OutMsg("wallet balance")

\* preparePayments has run to its end and its service loop was started
PaymentsPrepared ==
    /\ scanner.started
    /\ observer
    /\ chLoaded
    /\ walletInit
    /\ svc = "running"
    /\ fatalAt = "none"

\* preparePaymentChannel returned the key of a listed channel
ExistingSelected ==
    /\ selIdx \in 1..Len(list)
    /\ ret.key = list[selIdx].key
    /\ openCalls = <<>>

\* preparePaymentChannel returned after its last poll saw the channel it
\* deployed ready on both sides
DeployedReady ==
    /\ selIdx = 0
    /\ Len(openCalls) = 1
    /\ ret.key = openCalls[1]
    /\ lastPoll = [addr |-> addr, res |-> [err |-> "none", our |-> TRUE, their |-> TRUE]]

\* main is past the payment setup: about to start the gateway, or in the
\* console
PastSetup == gateStarted \/ pc \in ConsolePcs \cup {"main_gate", "main_ctx"}

\* C21: with payments enabled the tunnel gateway is started and the console
\* reads a command only after preparePayments has completed and
\* preparePaymentChannel has returned without error, with an existing channel
\* selected or a deployed one ready on both sides; when preparePaymentChannel
\* returns an error the process ends, the gateway is never started and the
\* console never reads a command.
C21_GatewayAfterChannel ==
    /\ (cfgPayments /\ PastSetup) =>
          /\ PaymentsPrepared
          /\ ret.err = "none"
          /\ ret.key \in ValidKeys
          /\ ExistingSelected \/ DeployedReady
    /\ pc \in ConsolePcs => gateStarted
    /\ (pc = "sel_err" \/ fatalAt = "channel") =>
          /\ ret.err # "none"
          /\ ~gateStarted
          /\ cmdLog = NoLog
          /\ out = NoOut
    /\ fatalAt = "channel" => exited /\ pc = "exit"

\* the console has processed a wallet command on a node that deployed its
\* channel and waited for it
C21_Witness ==
    /\ cfgPayments
    /\ gateStarted
    /\ pc = "con_read"
    /\ DeployedReady
    /\ polls = MaxPolls
    /\ cmdLog.cmd = "wallet-ton-balance"

====
